---- MODULE Spec2Model ----
(***************************************************************************)
(* Model of the chat workflow service: WorkflowFactory, ChatbotService and *)
(* the four workflows (SimpleChatbot, MultiStepAgent, PromptOptimization,  *)
(* WebSearch).  One conversation turn is one invocation; the invocation    *)
(* advances from one suspension point (a call to the model backend or the  *)
(* search tool) to the next.  The model backend, the search tool and the   *)
(* memory buffer are external: their replies and their failures are        *)
(* nondeterministic choices.                                               *)
(*                                                                         *)
(* Texts are sequences of characters (one-character strings); a long fixed *)
(* text may be written as one opaque chunk.                                *)
(***************************************************************************)
EXTENDS Naturals, Integers, Sequences, FiniteSets, TLC

(***************************************************************************)
(* Bounds                                                                  *)
(***************************************************************************)
MaxTurns == 2
MaxCandidates == 3
MaxHistory == 1

(***************************************************************************)
(* Text helpers: str.strip(), str.upper(), str.lower(), "x in s"           *)
(***************************************************************************)
Whitespace == {" ", "\n", "\t"}

LowerLetters == <<"a","b","c","d","e","f","g","h","i","j","k","l","m",
                  "n","o","p","q","r","s","t","u","v","w","x","y","z">>
UpperLetters == <<"A","B","C","D","E","F","G","H","I","J","K","L","M",
                  "N","O","P","Q","R","S","T","U","V","W","X","Y","Z">>

UpperChar(c) ==
    IF \E i \in 1..26 : LowerLetters[i] = c
    THEN UpperLetters[CHOOSE i \in 1..26 : LowerLetters[i] = c]
    ELSE c

LowerChar(c) ==
    IF \E i \in 1..26 : UpperLetters[i] = c
    THEN LowerLetters[CHOOSE i \in 1..26 : UpperLetters[i] = c]
    ELSE c

Upper(s) == [i \in 1..Len(s) |-> UpperChar(s[i])]

Lower(s) == [i \in 1..Len(s) |-> LowerChar(s[i])]

RECURSIVE LStrip(_)
LStrip(s) ==
    IF s # <<>> /\ Head(s) \in Whitespace THEN LStrip(Tail(s)) ELSE s

RECURSIVE RStrip(_)
RStrip(s) ==
    IF s # <<>> /\ s[Len(s)] \in Whitespace
    THEN RStrip(SubSeq(s, 1, Len(s) - 1))
    ELSE s

Strip(s) == RStrip(LStrip(s))

Contains(s, sub) ==
    \E i \in 0..(Len(s) - Len(sub)) : SubSeq(s, i + 1, i + Len(sub)) = sub

(***************************************************************************)
(* Program constants                                                       *)
(***************************************************************************)
Apology ==
    <<"I apologize, but I encountered an error while processing your request. Please try again later.">>

SimpleSystemPrompt == <<"You are a helpful assistant.">>

OptimizerSystemPrompt == <<"You are a helpful assistant that optimizes prompts.">>

DefaultModel == "llama-3.1-70b-versatile"

\* BaseWorkflow.set_model: model identifier -> provider client class
model_mapping ==
    [m \in {"llama-3.1-70b-versatile", "llama-3.1-8b-instant", "gpt-4o",
            "gpt-4o-mini", "models/gemini-1.5-pro", "models/gemini-1.5-flash"} |->
        CASE m \in {"llama-3.1-70b-versatile", "llama-3.1-8b-instant"} -> "Groq"
          [] m \in {"gpt-4o", "gpt-4o-mini"} -> "OpenAI"
          [] OTHER -> "Gemini"]

(***************************************************************************)
(* Inputs                                                                  *)
(***************************************************************************)
Sessions == {"s1", "s2"}

Hi == <<"H", "i">>
HelloThere == <<"Hello there!">>
YesPadded == <<" ", "Y", "e", "s", "\n">>

UserInputs == {Hi}

\* the valid keys, and the key demo.py passes
WorkflowKeys ==
    {"simple_chatbot", "multi_step_agent", "prompt_optimization", "web_search", "simple"}

ModelIds == {DefaultModel, "gpt-unknown"}

\* texts the model backend may answer with
Replies == {HelloThere, YesPadded}

\* what the evaluation call of PromptOptimization may also answer: neither
\* the "yes" nor the "no" it was asked for
NoSlashYes == <<"n", "o", "/", "y", "e", "s">>
Evaluations == Replies \cup {NoSlashYes}

\* candidate subtasks the decomposition call may propose
CandidateTexts == {<<" ", "\n">>, <<" ", "a">>, <<"b">>}

RECURSIVE SeqsUpTo(_, _)
SeqsUpTo(S, n) ==
    IF n = 0 THEN {<<>>}
    ELSE LET shorter == SeqsUpTo(S, n - 1)
         IN  shorter \cup {Append(q, x) : q \in {p \in shorter : Len(p) = n - 1}, x \in S}

\* a decomposition reply with five non-empty candidate lines
FiveCandidates == << <<" ", "a">>, <<"b">>, <<"b">>, <<" ", "a">>, <<"b">> >>

CandidateLists == SeqsUpTo(CandidateTexts, MaxCandidates) \cup {FiveCandidates}

HistoryEntries ==
    { [role |-> <<"U", "s", "e", "r">>, content |-> Hi],
      [role |-> <<"a", "s", "s", "i", "s", "t", "a", "n", "t">>, content |-> HelloThere],
      [role |-> <<"T", "o", "o", "l">>, content |-> HelloThere],
      [role |-> <<>>, content |-> Hi] }

\* history = None and history = [] take the same branch of "if history:"
Histories == SeqsUpTo(HistoryEntries, MaxHistory)


(***************************************************************************)
(* Data                                                                    *)
(***************************************************************************)
\* MessageRole values
HUMAN == "user"
ASSISTANT == "assistant"
SYSTEM == "system"

ChatMessage(role, content) == [role |-> role, content |-> content]

NoMemory == [exists |-> FALSE, msgs |-> <<>>]

\* ChatMemoryBuffer.from_defaults(...): an empty buffer.  The token limits
\* (1024 and 10_000) exceed every transcript reachable within the bounds.
ChatMemoryBuffer == [exists |-> TRUE, msgs |-> <<>>]

\* memory.put(message)
Put(memory, message) == [memory EXCEPT !.msgs = Append(@, message)]

RECURSIVE PutAll(_, _)
PutAll(memory, messages) ==
    IF messages = <<>> THEN memory
    ELSE PutAll(Put(memory, Head(messages)), Tail(messages))

Subtask(description) == [description |-> description, result |-> <<>>]

AgentRequest(user_input) ==
    [user_input |-> user_input, history |-> <<>>, subtasks |-> <<>>]

AgentResponse(final_response, subtask_results) ==
    [final_response |-> final_response, subtask_results |-> subtask_results]

None == [some |-> FALSE]
Some(v) == [some |-> TRUE, val |-> v]

Returned(text) == [kind |-> "returned", text |-> text, error |-> "none"]
Raised(error) == [kind |-> "raised", text |-> <<>>, error |-> error]
NoOutcome == [kind |-> "none", text |-> <<>>, error |-> "none"]

NoWorkflow == [class |-> "None", llm |-> "None", memory |-> NoMemory, client |-> FALSE]

NoRequest ==
    [via |-> "none", session |-> "s1", user_input |-> <<>>, workflow_type |-> "none",
     history |-> <<>>, model |-> "none"]

Stages ==
    {"decompose_task", "execute_subtasks", "combine_results", "generate_final_response",
     "generate_response", "evaluate_prompt", "optimize_prompt",
     "optimize_query", "perform_web_search"}

\* one call to the model backend (or the search agent)
Call(stage, model, context, template, arg, sub) ==
    [stage |-> stage, model |-> model, context |-> context,
     prompt |-> [template |-> template, arg |-> arg],
     sub |-> sub, status |-> "inflight", reply |-> <<>>]

(***************************************************************************)
(* services/utils.py                                                       *)
(***************************************************************************)
\* variant: the role is compared without message.get("role", "").upper()
HistoryRole_case_sensitive(message) ==
    IF message.role = <<"u", "s", "e", "r">> THEN HUMAN
    ELSE IF message.role = <<"a", "s", "s", "i", "s", "t", "a", "n", "t">> THEN ASSISTANT
    ELSE SYSTEM

\* the role translation inside store_history_in_memory
HistoryRole(message) ==
    LET role == Upper(message.role)
    IN  IF role = <<"U", "S", "E", "R">> THEN HUMAN
        ELSE IF role = <<"A", "S", "S", "I", "S", "T", "A", "N", "T">> THEN ASSISTANT
        ELSE SYSTEM

\* the messages store_history_in_memory puts, in order
HistoryMessages(history) ==
    [i \in 1..Len(history) |-> ChatMessage(HistoryRole(history[i]), history[i].content)]

(***************************************************************************)
(* services/base_workflow.py, services/workflow_factory.py                 *)
(***************************************************************************)
\* BaseWorkflow.set_model: the client bound to llm, or the ValueError
set_model(model) ==
    IF model \in DOMAIN model_mapping
    THEN [ok |-> TRUE, llm |-> model_mapping[model]]
    ELSE [ok |-> FALSE, llm |-> "None"]

\* the constructors
NewWorkflow(class) ==
    [class |-> class,
     llm |-> IF class = "WebSearchWorkflow" THEN "Groq" ELSE "None",
     memory |-> IF class = "MultiStepAgentWorkflow" THEN ChatMemoryBuffer ELSE NoMemory,
     client |-> FALSE]

\* variant: an unknown key falls back to the simple chatbot
create_workflow_fallback(workflow_type) ==
    IF workflow_type = "prompt_optimization"
    THEN [ok |-> TRUE, workflow |-> NewWorkflow("PromptOptimizationWorkflow")]
    ELSE IF workflow_type = "multi_step_agent"
    THEN [ok |-> TRUE, workflow |-> NewWorkflow("MultiStepAgentWorkflow")]
    ELSE IF workflow_type = "web_search"
    THEN [ok |-> TRUE, workflow |-> NewWorkflow("WebSearchWorkflow")]
    ELSE [ok |-> TRUE, workflow |-> NewWorkflow("SimpleChatbotWorkflow")]

create_workflow(workflow_type) ==
    IF workflow_type = "prompt_optimization"
    THEN [ok |-> TRUE, workflow |-> NewWorkflow("PromptOptimizationWorkflow")]
    ELSE IF workflow_type = "multi_step_agent"
    THEN [ok |-> TRUE, workflow |-> NewWorkflow("MultiStepAgentWorkflow")]
    ELSE IF workflow_type = "simple_chatbot"
    THEN [ok |-> TRUE, workflow |-> NewWorkflow("SimpleChatbotWorkflow")]
    ELSE IF workflow_type = "web_search"
    THEN [ok |-> TRUE, workflow |-> NewWorkflow("WebSearchWorkflow")]
    ELSE [ok |-> FALSE, workflow |-> NoWorkflow]

\* positional parameters (besides self) execute_request_workflow accepts
ExecuteParams(class) ==
    IF class = "MultiStepAgentWorkflow" THEN 3 ELSE 1

(***************************************************************************)
(* MultiStepAgentWorkflow: pure parts                                      *)
(***************************************************************************)
\* variant: the comprehension without its "if task.strip()" filter
decompose_task_unfiltered(candidates) ==
    [i \in 1..Len(candidates) |-> Subtask(Strip(candidates[i]))]

\* decompose_task: the list comprehension over response.subtasks
RECURSIVE decompose_task(_)
decompose_task(candidates) ==
    IF candidates = <<>> THEN <<>>
    ELSE IF Strip(Head(candidates)) # <<>>
         THEN <<Subtask(Strip(Head(candidates)))>> \o decompose_task(Tail(candidates))
         ELSE decompose_task(Tail(candidates))

\* variant: an earlier duplicate key is kept (first write wins)
subtask_results_first_wins(subtasks) ==
    [d \in {subtasks[i].description : i \in 1..Len(subtasks)} |->
        LET first == CHOOSE i \in 1..Len(subtasks) :
                        /\ subtasks[i].description = d
                        /\ \A j \in 1..Len(subtasks) :
                               subtasks[j].description = d => i <= j
        IN  subtasks[first].result]

\* combine_results: the dict comprehension (a later duplicate key overwrites)
subtask_results(subtasks) ==
    [d \in {subtasks[i].description : i \in 1..Len(subtasks)} |->
        LET last == CHOOSE i \in 1..Len(subtasks) :
                        /\ subtasks[i].description = d
                        /\ \A j \in 1..Len(subtasks) :
                               subtasks[j].description = d => j <= i
        IN  subtasks[last].result]

\* variant: the join returns as soon as one task has returned
gather_first_completed(t) ==
    IF \E i \in 1..Len(t) : t[i] = "failed" THEN "raise"
    ELSE IF t = <<>> \/ \E i \in 1..Len(t) : t[i] = "done" THEN "done"
    ELSE "waiting"

\* variant: a join that rejects an empty list of awaitables
gather_empty_raises(t) ==
    IF t = <<>> THEN "raise"
    ELSE IF \E i \in 1..Len(t) : t[i] = "pending" THEN "waiting"
    ELSE IF \E i \in 1..Len(t) : t[i] = "failed" THEN "raise"
    ELSE IF \A i \in 1..Len(t) : t[i] = "done" THEN "done"
    ELSE "waiting"

\* variant: gather(..., return_exceptions=True) never raises
gather_return_exceptions(t) ==
    IF \A i \in 1..Len(t) : t[i] \in {"done", "failed"} THEN "done" ELSE "waiting"

\* asyncio.gather(*tasks) as awaited by execute_subtasks: it raises the first
\* exception of any task (the other tasks keep running), and returns once
\* every task has returned.  The tasks are all scheduled before the awaiting
\* coroutine can run again, so none is still unstarted when it resumes.
gather(t) ==
    IF \E i \in 1..Len(t) : t[i] = "pending" THEN "waiting"
    ELSE IF \E i \in 1..Len(t) : t[i] = "failed" THEN "raise"
    ELSE IF \A i \in 1..Len(t) : t[i] = "done" THEN "done"
    ELSE "waiting"

\* variant: the except clause logs and re-raises
MultiStepExceptReraise == Raised("Exception")

\* the except clause of MultiStepAgentWorkflow.execute_request_workflow
MultiStepExcept == Returned(Apology)

(***************************************************************************)
(* State                                                                   *)
(***************************************************************************)
VARIABLES
    pc,             \* where the current invocation is suspended, or "idle"
    turn,           \* invocations started so far
    req,            \* arguments of the current (or last) invocation
    workflow,       \* the workflow instance the factory built for it
    sessionMemory,  \* cl.user_session "memory", per session
    request,        \* AgentRequest threaded through the multi-step stages
    tasks,          \* the tasks of asyncio.gather, one per subtask
    stageOut,       \* payload of the event each completed stage returned
    calls,          \* calls issued to the model backend / search agent
    outcome,        \* what the invocation returned or raised
    fault,          \* the step inside the try block that raised, if any
    handled,        \* executions of the except clause in this invocation
    memLog,         \* per session: memory buffers created and used by its turns
    replay          \* the replay harness: stubbed backend and the first run

vars ==
    <<pc, turn, req, workflow, sessionMemory, request, tasks, stageOut, calls,
      outcome, fault, handled, memLog, replay>>

NoStageOut == [s \in Stages |-> None]

\* no buffer created yet
NoMemLog == [s \in Sessions |-> [created |-> 0, used |-> {}]]

\* the turn of session s runs on a buffer: a new one, or the one it has
UseMemory(s, new) ==
    LET n == IF new THEN memLog[s].created + 1 ELSE memLog[s].created
    IN  memLog' = [memLog EXCEPT ![s] = [created |-> n, used |-> @.used \cup {n}]]

\* the live backend: nothing is recorded, every call may get any answer
NoReplay ==
    [on |-> FALSE, answered |-> <<>>, first |-> NoRequest, client |-> FALSE,
     requests |-> <<>>, result |-> NoOutcome]

\* the deterministic stub of a replay: it answers equal requests equally
Stubbed == [NoReplay EXCEPT !.on = TRUE]

Production ==
    /\ pc = "idle"
    /\ turn = 0
    /\ req = NoRequest
    /\ workflow = NoWorkflow
    /\ sessionMemory = [s \in Sessions |-> NoMemory]
    /\ request = AgentRequest(<<>>)
    /\ tasks = <<>>
    /\ stageOut = NoStageOut
    /\ calls = <<>>
    /\ outcome = NoOutcome
    /\ fault = "none"
    /\ handled = 0
    /\ memLog = NoMemLog

Init == Production /\ replay = NoReplay

\* the invocation ends: the value is returned or the error propagates
Finish(o) ==
    /\ outcome' = o
    /\ pc' = "idle"

\* the except clause ran after the step named f raised
Caught(f, o) ==
    /\ fault' = f
    /\ handled' = handled + 1
    /\ Finish(o)

\* what a call sends to the backend
RequestOf(call) ==
    [stage |-> call.stage, model |-> call.model, context |-> call.context,
     prompt |-> call.prompt]

\* two calls carry the same request to the backend
SameRequest(a, b) ==
    /\ a.stage = b.stage
    /\ a.model = b.model
    /\ a.context = b.context
    /\ a.prompt.template = b.prompt.template
    /\ a.prompt.arg = b.prompt.arg

\* the answers the stub has already given to the request of call
Answered(call) ==
    {e \in 1..Len(replay.answered) : SameRequest(replay.answered[e].request, call)}

\* the backend answers call: the live backend with anything, the stub with
\* what it answered to the same request before, if it did
Answer(call, status, reply) ==
    IF ~replay.on
    THEN UNCHANGED replay
    ELSE IF Answered(call) = {}
    THEN replay' = [replay EXCEPT !.answered =
                        Append(@, [request |-> call, status |-> status, reply |-> reply])]
    ELSE /\ \A e \in Answered(call) :
                /\ replay.answered[e].status = status
                /\ replay.answered[e].reply = reply
         /\ UNCHANGED replay

\* memory.put raises only in production runs, never under the replay harness
Reliable(ok) == replay.on => ok

\* the histories the harness replays a request with: none, and the longest
\* conversation of alternating user and assistant entries
ReplayHistories ==
    {<<>>,
     [i \in 1..MaxHistory |->
        IF i % 2 = 1 THEN [role |-> <<"U", "s", "e", "r">>, content |-> Hi]
        ELSE [role |-> <<"a", "s", "s", "i", "s", "t", "a", "n", "t">>,
              content |-> HelloThere]]}

\* the harness runs a request with an empty history, then replays it: same
\* input and same model, with a history or without
Replayable(r, client) ==
    replay.on =>
        /\ turn = 0 => r.history = <<>>
        /\ turn > 0 => r.history \in ReplayHistories
        /\ turn > 0 =>
                /\ r.via = replay.first.via
                /\ r.user_input = replay.first.user_input
                /\ r.workflow_type = replay.first.workflow_type
                /\ r.model = replay.first.model
                /\ client = replay.client

Resolve(i, status, reply) ==
    /\ calls' = [calls EXCEPT ![i] = [@ EXCEPT !.status = status, !.reply = reply]]
    /\ Answer(calls[i], status, reply)

\* index of the call the current stage is suspended on
Pending == CHOOSE i \in 1..Len(calls) : calls[i].status = "inflight" /\ calls[i].sub = 0


(***************************************************************************)
(* ChatbotService.process_request and the body of                          *)
(* MultiStepAgentWorkflow.execute_request_workflow up to its first await   *)
(***************************************************************************)
\* a new invocation starts: nothing of the previous one is kept
Begin(r, w) ==
    /\ req' = r
    /\ workflow' = w
    /\ tasks' = <<>>
    /\ stageOut' = NoStageOut

\* the invocation ends before the try block is entered
Propagate(error) ==
    /\ request' = AgentRequest(<<>>)
    /\ calls' = <<>>
    /\ fault' = "none"
    /\ handled' = 0
    /\ Finish(Raised(error))

\* variant: the request carries the history and the decomposition prompt
\* quotes its first entry
decompose_input_with_history(user_input, history) ==
    IF history = <<>> THEN user_input ELSE history[1].content \o user_input

\* the text of AgentRequest(user_input=user_input) that decompose_task formats
\* into its prompt
decompose_input(user_input, history) == user_input

\* execute_request_workflow(user_input, history, model) of the multi-step agent
MultiStepExecute(r, w) ==
    LET bound == set_model(r.model)
        puts == HistoryMessages(r.history) \o <<ChatMessage(HUMAN, r.user_input)>>
    IN  IF ~bound.ok
        THEN Begin(r, w) /\ Propagate("ValueError: Unsupported model")
        ELSE \E n \in 0..Len(puts) :
                \* the first n puts succeed; put n+1, if any, raises
                /\ Reliable(n = Len(puts))
                /\ Begin(r, [w EXCEPT !.llm = bound.llm,
                                      !.memory = PutAll(@, SubSeq(puts, 1, n))])
                /\ IF n < Len(puts)
                   THEN /\ request' = AgentRequest(<<>>)
                        /\ calls' = <<>>
                        /\ fault' = IF n < Len(r.history) THEN "store_history_in_memory"
                                                         ELSE "put_user_input"
                        /\ handled' = 1
                        /\ Finish(MultiStepExcept)
                   ELSE /\ request' = AgentRequest(r.user_input)
                        /\ calls' = <<Call("decompose_task", r.model, <<>>,
                                           "decomposition",
                                           decompose_input(r.user_input, r.history), 0)>>
                        /\ fault' = "none"
                        /\ handled' = 0
                        /\ outcome' = NoOutcome
                        /\ pc' = "decompose_task"

\* main.py keeps one ChatbotService per Chainlit session (on_chat_start), so
\* the calls a run makes on the service are the turns of one session
ServiceSession == "s1"

ProcessRequest(user_input, workflow_type, history, model) ==
    /\ pc = "idle" /\ outcome.kind = "none"
    /\ turn < MaxTurns
    \* a run drives the service or the workflows directly, not both
    /\ req.via \in {"none", "service"}
    \* every call builds a new workflow and keeps nothing of an earlier call,
    \* so a production run makes one call; the replay harness makes more
    /\ turn = 0 \/ replay.on
    /\ turn' = turn + 1
    /\ UNCHANGED <<sessionMemory, replay>>
    /\ LET r == [via |-> "service", session |-> "none", user_input |-> user_input,
                 workflow_type |-> workflow_type, history |-> history, model |-> model]
           made == create_workflow(workflow_type)
       IN  /\ Replayable(r, FALSE)
           /\ IF made.ok /\ made.workflow.class = "MultiStepAgentWorkflow"
              \* MultiStepAgentWorkflow.__init__ builds the buffer of this workflow
              THEN UseMemory(ServiceSession, TRUE)
              ELSE UNCHANGED memLog
           /\ IF ~made.ok
              THEN Begin(r, NoWorkflow) /\ Propagate("ValueError: Invalid workflow type")
              ELSE IF ExecuteParams(made.workflow.class) < 3
              THEN Begin(r, made.workflow)
                   /\ Propagate("TypeError: too many positional arguments")
              ELSE MultiStepExecute(r, made.workflow)

\* the caller has the outcome: on_message sends the text to the user (or the
\* error propagates), and the workflow of the invocation is dropped
Deliver ==
    /\ pc = "idle" /\ outcome.kind # "none"
    /\ req' = [NoRequest EXCEPT !.via = req.via]
    /\ workflow' = NoWorkflow
    /\ request' = AgentRequest(<<>>)
    /\ tasks' = <<>>
    /\ stageOut' = NoStageOut
    /\ calls' = <<>>
    /\ outcome' = NoOutcome
    /\ fault' = "none"
    /\ handled' = 0
    /\ replay' = IF replay.on /\ replay.first.via = "none"
                 THEN [replay EXCEPT !.first = req, !.client = workflow.client,
                                     !.requests = [c \in 1..Len(calls) |-> RequestOf(calls[c])],
                                     !.result = outcome]
                 ELSE replay
    /\ UNCHANGED <<memLog, pc, turn, sessionMemory>>

(***************************************************************************)
(* MultiStepAgentWorkflow: the stages                                      *)
(***************************************************************************)
IsMultiStep == workflow.class = "MultiStepAgentWorkflow"

\* astructured_predict returns; execute_subtasks creates the gather tasks
DecomposeReturn(candidates) ==
    /\ IsMultiStep /\ pc = "decompose_task"
    /\ request' = [request EXCEPT !.subtasks = decompose_task(candidates)]
    /\ Resolve(Pending, "ok", candidates)
    /\ stageOut' = [stageOut EXCEPT !["decompose_task"] = Some(request')]
    /\ tasks' = [i \in 1..Len(request'.subtasks) |-> "pending"]
    /\ pc' = "execute_subtasks"
    /\ UNCHANGED <<memLog, turn, req, workflow, sessionMemory, outcome, fault, handled>>

\* variant: the coroutines share the loop variable, which is the last subtask
\* by the time they run
bound_subtask_late(i, subtasks) == Len(subtasks)

\* the subtask that the i-th execute_single_subtask(subtask) of the
\* comprehension was called with
bound_subtask(i, subtasks) == i

\* a task of the gather runs execute_single_subtask up to its await
StartSubtask(i) ==
    /\ IsMultiStep /\ pc = "execute_subtasks"
    /\ i \in 1..Len(tasks) /\ tasks[i] = "pending"
    /\ \A j \in 1..(i - 1) : tasks[j] # "pending"
    /\ calls' = Append(calls, Call("execute_subtasks", req.model, <<>>, "execution",
                                   request.subtasks[bound_subtask(i, request.subtasks)]
                                       .description, i))
    /\ tasks' = [tasks EXCEPT ![i] = "running"]
    /\ UNCHANGED <<memLog, pc, turn, req, workflow, sessionMemory, request, stageOut,
                   outcome, fault, handled, replay>>

SubtaskCall(i) ==
    CHOOSE c \in 1..Len(calls) : calls[c].sub = i /\ calls[c].status = "inflight"

\* acomplete returns for subtask i: the result is written onto the subtask
ReturnSubtask(i, reply) ==
    /\ i \in 1..Len(tasks) /\ tasks[i] = "running"
    /\ Resolve(SubtaskCall(i), "ok", reply)
    /\ request' = [request EXCEPT
                        !.subtasks[bound_subtask(i, request.subtasks)].result = Strip(reply)]
    /\ tasks' = [tasks EXCEPT ![i] = "done"]
    /\ UNCHANGED <<memLog, pc, turn, req, workflow, sessionMemory, stageOut, outcome,
                   fault, handled>>

\* acomplete raises for subtask i
FailSubtask(i) ==
    /\ i \in 1..Len(tasks) /\ tasks[i] = "running"
    /\ Resolve(SubtaskCall(i), "err", <<>>)
    /\ tasks' = [tasks EXCEPT ![i] = "failed"]
    /\ UNCHANGED <<memLog, pc, turn, req, workflow, sessionMemory, request, stageOut,
                   outcome, fault, handled>>

\* the gather returns; combine_results builds the mapping and asks the model
GatherReturn ==
    /\ IsMultiStep /\ pc = "execute_subtasks"
    /\ gather(tasks) = "done"
    /\ stageOut' = [stageOut EXCEPT !["execute_subtasks"] = Some(request)]
    /\ calls' = Append(calls, Call("combine_results", req.model, <<>>, "combination",
                                   subtask_results(request.subtasks), 0))
    /\ pc' = "combine_results"
    /\ UNCHANGED <<memLog, turn, req, workflow, sessionMemory, request, tasks, outcome,
                   fault, handled, replay>>

\* the gather raises the exception of a failed task
GatherRaise ==
    /\ IsMultiStep /\ pc = "execute_subtasks"
    /\ gather(tasks) = "raise"
    /\ Caught("execute_subtasks", MultiStepExcept)
    /\ UNCHANGED <<memLog, turn, req, workflow, sessionMemory, request, tasks, stageOut,
                   calls, replay>>

\* generate_final_response asks the model to polish the draft
CombineReturn(reply) ==
    /\ IsMultiStep /\ pc = "combine_results"
    /\ stageOut' = [stageOut EXCEPT !["combine_results"] =
                        Some(AgentResponse(Strip(reply), subtask_results(request.subtasks)))]
    /\ calls' = Append([calls EXCEPT ![Pending] = [@ EXCEPT !.status = "ok", !.reply = reply]],
                       Call("generate_final_response", req.model, <<>>, "final_response",
                            Strip(reply), 0))
    /\ Answer(calls[Pending], "ok", reply)
    /\ pc' = "generate_final_response"
    /\ UNCHANGED <<memLog, turn, req, workflow, sessionMemory, request, tasks, outcome,
                   fault, handled>>

\* the final response is put into memory (the put may raise) and returned
FinalizeReturn(reply, putOk) ==
    /\ IsMultiStep /\ pc = "generate_final_response"
    /\ Reliable(putOk)
    /\ LET response == [stageOut["combine_results"].val EXCEPT
                            !.final_response = Strip(reply)]
       IN  /\ stageOut' = [stageOut EXCEPT !["generate_final_response"] = Some(response)]
           /\ Resolve(Pending, "ok", reply)
           /\ IF putOk
              THEN /\ workflow' = [workflow EXCEPT !.memory =
                                       Put(@, ChatMessage(ASSISTANT, response.final_response))]
                   /\ Finish(Returned(response.final_response))
                   /\ UNCHANGED <<fault, handled>>
              ELSE /\ Caught("put_final_response", MultiStepExcept)
                   /\ UNCHANGED workflow
    /\ UNCHANGED <<memLog, turn, req, sessionMemory, request, tasks>>

\* the backend raises in decompose_task, combine_results or generate_final_response
MultiStepStageFail ==
    /\ IsMultiStep
    /\ pc \in {"decompose_task", "combine_results", "generate_final_response"}
    /\ Resolve(Pending, "err", <<>>)
    /\ Caught(pc, MultiStepExcept)
    /\ UNCHANGED <<memLog, turn, req, workflow, sessionMemory, request, tasks, stageOut>>

(***************************************************************************)
(* SimpleChatbot, PromptOptimization and WebSearch workflows.  Their       *)
(* execute_request_workflow takes user_input only; the memory and the      *)
(* model identifier come from the Chainlit user session, and the backend   *)
(* is reached through self.client, an attribute no constructor assigns:    *)
(* it exists only if the caller attached one to the workflow.              *)
(***************************************************************************)
SessionKeys == {"simple_chatbot", "prompt_optimization", "web_search"}

SimpleExcept == Returned(Apology)

PromptOptimizationExcept == Returned(Apology)

WebSearchExcept == Returned(Apology)

\* the except clause of the workflow class
ExceptOf(class) ==
    CASE class = "SimpleChatbotWorkflow" -> SimpleExcept
      [] class = "PromptOptimizationWorkflow" -> PromptOptimizationExcept
      [] class = "WebSearchWorkflow" -> WebSearchExcept
      [] OTHER -> MultiStepExcept

\* _setup_chat_store: the messages put into the new buffer
SetupMessages(class) ==
    CASE class = "SimpleChatbotWorkflow" -> <<ChatMessage(SYSTEM, SimpleSystemPrompt)>>
      [] class = "PromptOptimizationWorkflow" -> <<ChatMessage(SYSTEM, OptimizerSystemPrompt)>>
      [] OTHER -> <<>>

\* the first stage execute_request_workflow awaits, and its prompt
FirstStage(class) ==
    CASE class = "SimpleChatbotWorkflow" -> [stage |-> "generate_response", template |-> "memory"]
      [] class = "PromptOptimizationWorkflow" -> [stage |-> "evaluate_prompt", template |-> "evaluation"]
      [] OTHER -> [stage |-> "optimize_query", template |-> "query_optimization"]

Memory == sessionMemory[req.session]

\* evaluate_prompt: "yes" in response.lower()
needs_optimization(reply) == Contains(Lower(reply), <<"y", "e", "s">>)

\* variant: the test of optimize_prompt inverted
optimize_prompt_inverted(evaluation) == evaluation.needs_optimization

\* optimize_prompt: TRUE when it returns the original prompt without a call
optimize_prompt_passes(evaluation) == ~evaluation.needs_optimization

\* execute_request_workflow(user_input) called on a workflow the factory built,
\* inside the Chainlit context of session s whose "model" setting is m
ExecuteDirect(s, user_input, workflow_type, client, m) ==
    /\ pc = "idle" /\ outcome.kind = "none"
    /\ turn < MaxTurns
    /\ req.via \in {"none", "direct"}
    /\ workflow_type \in SessionKeys
    /\ turn' = turn + 1
    \* _setup_chat_store builds a buffer only if the session has none
    /\ UseMemory(s, ~sessionMemory[s].exists)
    /\ UNCHANGED replay
    /\ LET w == [create_workflow(workflow_type).workflow EXCEPT !.client = client]
           r == [via |-> "direct", session |-> s, user_input |-> user_input,
                 workflow_type |-> workflow_type, history |-> <<>>, model |-> m]
           fresh == ~sessionMemory[s].exists
           first == FirstStage(w.class)
       IN  /\ Begin(r, w)
           /\ Replayable(r, client)
           /\ \E setupOk \in (IF fresh /\ SetupMessages(w.class) # <<>> THEN BOOLEAN ELSE {TRUE}),
                 putOk \in BOOLEAN :
                LET mem0 == IF ~fresh THEN sessionMemory[s]
                            ELSE IF setupOk THEN PutAll(ChatMemoryBuffer, SetupMessages(w.class))
                            ELSE ChatMemoryBuffer
                    mem1 == Put(mem0, ChatMessage(HUMAN, user_input))
                IN  /\ Reliable(setupOk /\ putOk)
                    /\ IF ~setupOk
                       THEN \* the put in _setup_chat_store raises, outside the try block
                            /\ sessionMemory' = [sessionMemory EXCEPT ![s] = mem0]
                            /\ Propagate("Exception in _setup_chat_store")
                       ELSE IF ~putOk
                       THEN /\ sessionMemory' = [sessionMemory EXCEPT ![s] = mem0]
                            /\ request' = AgentRequest(<<>>)
                            /\ calls' = <<>>
                            /\ fault' = "put_user_input"
                            /\ handled' = 1
                            /\ Finish(ExceptOf(w.class))
                       ELSE IF ~client
                       THEN \* AttributeError on self.client in the first stage
                            /\ sessionMemory' = [sessionMemory EXCEPT ![s] = mem1]
                            /\ request' = AgentRequest(<<>>)
                            /\ calls' = <<>>
                            /\ fault' = first.stage
                            /\ handled' = 1
                            /\ Finish(ExceptOf(w.class))
                       ELSE /\ sessionMemory' = [sessionMemory EXCEPT ![s] = mem1]
                            /\ request' = AgentRequest(<<>>)
                            /\ calls' = <<Call(first.stage, m, mem1.msgs, first.template,
                                               user_input, 0)>>
                            /\ fault' = "none"
                            /\ handled' = 0
                            /\ outcome' = NoOutcome
                            /\ pc' = first.stage

\* variant: the response is returned without being put into memory
PutAndReturn_without_put(response, putOk) ==
    /\ Reliable(putOk)
    /\ Finish(Returned(response))
    /\ UNCHANGED <<fault, handled, sessionMemory>>

\* the tail of the three workflows: put the response into memory, return it
PutAndReturn(response, putOk) ==
    /\ Reliable(putOk)
    /\ IF putOk
       THEN /\ sessionMemory' = [sessionMemory EXCEPT ![req.session] =
                                     Put(@, ChatMessage(ASSISTANT, response))]
            /\ Finish(Returned(response))
            /\ UNCHANGED <<fault, handled>>
       ELSE /\ Caught("put_final_response", ExceptOf(workflow.class))
            /\ UNCHANGED sessionMemory

\* resolve the pending call and issue the next stage's call
NextCall(reply, stage, model, template, arg) ==
    /\ calls' = Append([calls EXCEPT ![Pending] = [@ EXCEPT !.status = "ok", !.reply = reply]],
                       Call(stage, model, Memory.msgs, template, arg, 0))
    /\ Answer(calls[Pending], "ok", reply)

\* SimpleChatbotWorkflow.generate_response returns
SimpleReturn(reply, putOk) ==
    /\ workflow.class = "SimpleChatbotWorkflow" /\ pc = "generate_response"
    /\ stageOut' = [stageOut EXCEPT !["generate_response"] = Some(reply)]
    /\ Resolve(Pending, "ok", reply)
    /\ PutAndReturn(reply, putOk)
    /\ UNCHANGED <<memLog, turn, req, workflow, request, tasks>>

\* evaluate_prompt returns; optimize_prompt either passes the original prompt
\* on to generate_response or asks the model for a better one
EvaluateReturn(reply) ==
    /\ workflow.class = "PromptOptimizationWorkflow" /\ pc = "evaluate_prompt"
    /\ LET evaluation == [needs_optimization |-> needs_optimization(reply),
                          original_prompt |-> req.user_input]
       IN  IF optimize_prompt_passes(evaluation)
           THEN /\ stageOut' = [stageOut EXCEPT
                                    !["evaluate_prompt"] = Some(evaluation),
                                    !["optimize_prompt"] = Some(evaluation.original_prompt)]
                /\ NextCall(reply, "generate_response", req.model, "prompt",
                            evaluation.original_prompt)
                /\ pc' = "generate_response"
           ELSE /\ stageOut' = [stageOut EXCEPT !["evaluate_prompt"] = Some(evaluation)]
                /\ NextCall(reply, "optimize_prompt", req.model, "optimization",
                            evaluation.original_prompt)
                /\ pc' = "optimize_prompt"
    /\ UNCHANGED <<memLog, turn, req, workflow, sessionMemory, request, tasks, outcome,
                   fault, handled>>

\* the optimizer call returns; generate_response asks with the optimized prompt
OptimizeReturn(reply) ==
    /\ workflow.class = "PromptOptimizationWorkflow" /\ pc = "optimize_prompt"
    /\ stageOut' = [stageOut EXCEPT !["optimize_prompt"] = Some(reply)]
    /\ NextCall(reply, "generate_response", req.model, "prompt", reply)
    /\ pc' = "generate_response"
    /\ UNCHANGED <<memLog, turn, req, workflow, sessionMemory, request, tasks, outcome,
                   fault, handled>>

\* PromptOptimizationWorkflow.generate_response returns
RespondReturn(reply, putOk) ==
    /\ workflow.class = "PromptOptimizationWorkflow" /\ pc = "generate_response"
    /\ stageOut' = [stageOut EXCEPT !["generate_response"] = Some(reply)]
    /\ Resolve(Pending, "ok", reply)
    /\ PutAndReturn(reply, putOk)
    /\ UNCHANGED <<memLog, turn, req, workflow, request, tasks>>

\* variant: the search stage is handed the event of the user input
search_input_raw(user_input, optimized_query) == user_input

\* the payload execute_request_workflow hands to perform_web_search
search_input(user_input, optimized_query) == optimized_query

\* optimize_query returns; perform_web_search hands the query to the search
\* agent, which gets the query alone (no session memory) and runs on self.llm
OptimizeQueryReturn(reply) ==
    /\ workflow.class = "WebSearchWorkflow" /\ pc = "optimize_query"
    /\ stageOut' = [stageOut EXCEPT !["optimize_query"] = Some(reply)]
    /\ calls' = Append([calls EXCEPT ![Pending] = [@ EXCEPT !.status = "ok", !.reply = reply]],
                       Call("perform_web_search", DefaultModel, <<>>, "search",
                            search_input(req.user_input, reply), 0))
    /\ Answer(calls[Pending], "ok", reply)
    /\ pc' = "perform_web_search"
    /\ UNCHANGED <<memLog, turn, req, workflow, sessionMemory, request, tasks, outcome,
                   fault, handled>>

\* the search agent returns; generate_final_response asks for the answer
SearchReturn(results) ==
    /\ workflow.class = "WebSearchWorkflow" /\ pc = "perform_web_search"
    /\ stageOut' = [stageOut EXCEPT !["perform_web_search"] = Some(results)]
    /\ NextCall(results, "generate_final_response", req.model, "final_answer", results)
    /\ pc' = "generate_final_response"
    /\ UNCHANGED <<memLog, turn, req, workflow, sessionMemory, request, tasks, outcome,
                   fault, handled>>

\* WebSearchWorkflow.generate_final_response returns
AnswerReturn(reply, putOk) ==
    /\ workflow.class = "WebSearchWorkflow" /\ pc = "generate_final_response"
    /\ stageOut' = [stageOut EXCEPT !["generate_final_response"] = Some(reply)]
    /\ Resolve(Pending, "ok", reply)
    /\ PutAndReturn(reply, putOk)
    /\ UNCHANGED <<memLog, turn, req, workflow, request, tasks>>

\* the backend (or the search agent) raises in a stage of the three workflows
SessionStageFail ==
    /\ workflow.class \in {"SimpleChatbotWorkflow", "PromptOptimizationWorkflow",
                           "WebSearchWorkflow"}
    /\ pc # "idle"
    /\ Resolve(Pending, "err", <<>>)
    /\ Caught(pc, ExceptOf(workflow.class))
    /\ UNCHANGED <<memLog, turn, req, workflow, sessionMemory, request, tasks, stageOut>>

Next ==
    \/ \E u \in UserInputs, k \in WorkflowKeys, h \in Histories, m \in ModelIds :
            ProcessRequest(u, k, h, m)
    \/ Deliver
    \/ \E c \in CandidateLists : DecomposeReturn(c)
    \/ \E i \in 1..Len(tasks) : StartSubtask(i)
    \/ \E i \in 1..Len(tasks), r \in Replies : ReturnSubtask(i, r)
    \/ \E i \in 1..Len(tasks) : FailSubtask(i)
    \/ GatherReturn
    \/ GatherRaise
    \/ \E r \in Replies : CombineReturn(r)
    \/ \E r \in Replies, ok \in BOOLEAN : FinalizeReturn(r, ok)
    \/ MultiStepStageFail
    \/ \E s \in Sessions, u \in UserInputs, k \in SessionKeys, c \in BOOLEAN, m \in ModelIds :
            ExecuteDirect(s, u, k, c, m)
    \/ \E r \in Replies, ok \in BOOLEAN : SimpleReturn(r, ok)
    \/ \E r \in Evaluations : EvaluateReturn(r)
    \/ \E r \in Replies : OptimizeReturn(r)
    \/ \E r \in Replies, ok \in BOOLEAN : RespondReturn(r, ok)
    \/ \E r \in Replies : OptimizeQueryReturn(r)
    \/ \E r \in Replies : SearchReturn(r)
    \/ \E r \in Replies, ok \in BOOLEAN : AnswerReturn(r, ok)
    \/ SessionStageFail

Spec == Init /\ [][Next]_vars

\* the steps the event loop runs without waiting for anything outside the
\* process: starting the tasks of the gather, resuming execute_subtasks after
\* it, and handing the outcome to the caller.  A backend or search call is
\* answered by the outside world, which owes the program nothing; and no
\* step of the program ends a call that is not answered (the timeout given
\* to Workflow.__init__ governs Workflow.run, which is never called).
Fairness ==
    /\ WF_vars(\E i \in 1..Len(tasks) : StartSubtask(i))
    /\ WF_vars(GatherReturn)
    /\ WF_vars(GatherRaise)
    /\ WF_vars(Deliver)

FairSpec == Spec /\ Fairness

\* the same program against the deterministic stub, replaying its first request
ReplayInit == Production /\ replay = Stubbed

ReplaySpec == ReplayInit /\ [][Next]_vars


(***************************************************************************)
(* Properties                                                              *)
(***************************************************************************)
ValidKeys == {"simple_chatbot", "multi_step_agent", "prompt_optimization", "web_search"}

Invoked == req.workflow_type # "none"

Done == Invoked /\ pc = "idle" /\ outcome.kind # "none"

CallsOf(stage) == {c \in 1..Len(calls) : calls[c].stage = stage}

\* C1: the factory builds the SimpleChatbot, MultiStepAgent, PromptOptimization
\* or WebSearch workflow for its four keys; for any other key it fails with
\* the invalid-workflow-type error and no workflow is built.
C1_FactoryMapsKeys ==
    Invoked =>
        /\ req.workflow_type = "simple_chatbot" => workflow.class = "SimpleChatbotWorkflow"
        /\ req.workflow_type = "multi_step_agent" => workflow.class = "MultiStepAgentWorkflow"
        /\ req.workflow_type = "prompt_optimization" =>
                workflow.class = "PromptOptimizationWorkflow"
        /\ req.workflow_type = "web_search" => workflow.class = "WebSearchWorkflow"
        /\ req.workflow_type \notin ValidKeys =>
                /\ workflow.class = "None"
                /\ outcome.kind = "raised"
                /\ outcome.error = "ValueError: Invalid workflow type"
                /\ calls = <<>>

\* C1 witness: the key demo.py passes is rejected
C1_Witness ==
    /\ req.via = "service" /\ req.workflow_type = "simple"
    /\ outcome.kind = "raised" /\ workflow.class = "None"

\* C2: for each of the four workflow types and a supported model,
\* process_request ends by returning the workflow's text, never by raising,
\* and the workflow was given the history and the model.
C2_ProcessRequestReturns ==
    (Done /\ req.via = "service" /\ req.workflow_type \in ValidKeys
          /\ req.model \in DOMAIN model_mapping) =>
        /\ outcome.kind = "returned"
        /\ workflow.llm = model_mapping[req.model]
        /\ Len(workflow.memory.msgs) >= Len(req.history)

\* C3: a workflow invoked with a model identifier outside the known set
\* raises the unsupported-model error, with no call to the backend and the
\* workflow's memory empty.
C3_UnknownModelRejected ==
    (Done /\ req.workflow_type \in ValidKeys /\ req.model \notin DOMAIN model_mapping) =>
        /\ outcome.kind = "raised"
        /\ outcome.error = "ValueError: Unsupported model"
        /\ calls = <<>>
        /\ workflow.memory.msgs = <<>>

\* C4: an exception raised while loading history, appending the user input,
\* running a stage or appending the final response is handled by the except
\* clause exactly once and the invocation returns the apology; an invocation
\* that raises did so before any of those steps ran.
C4_FailuresBecomeApology ==
    /\ handled <= 1
    /\ fault # "none" =>
            /\ handled = 1
            /\ pc = "idle"
            /\ outcome.kind = "returned"
            /\ outcome.text = Apology
    /\ outcome.kind = "raised" =>
            /\ fault = "none"
            /\ calls = <<>>
            /\ outcome.error \in {"ValueError: Invalid workflow type",
                                  "TypeError: too many positional arguments",
                                  "ValueError: Unsupported model",
                                  "Exception in _setup_chat_store"}
    /\ (\E c \in 1..Len(calls) : calls[c].status = "err" /\ calls[c].sub = 0) => fault # "none"

\* C4 witness: the put of the final response raised and the apology was returned
C4_Witness ==
    /\ fault = "put_final_response" /\ workflow.class = "MultiStepAgentWorkflow"
    /\ outcome.text = Apology /\ handled = 1

\* C5: after a successful SimpleChatbot run on a new session the memory is
\* the loaded history, then the user input as a user message, then the
\* response as an assistant message: |H| + 2 messages.
C5_SimpleMemoryIsHistoryPlusTwo ==
    (Done /\ workflow.class = "SimpleChatbotWorkflow" /\ outcome.kind = "returned"
          /\ fault = "none" /\ turn = 1) =>
        Memory.msgs = HistoryMessages(req.history)
                        \o <<ChatMessage(HUMAN, req.user_input),
                             ChatMessage(ASSISTANT, outcome.text)>>

\* C6: after Decompose the request holds at most 3 subtasks.
C6_AtMostThreeSubtasks ==
    stageOut["decompose_task"].some => Len(request.subtasks) <= 3

\* the candidates the decomposition call returned
Candidates == calls[1].reply

NonBlank(text) == \E k \in 1..Len(text) : text[k] \notin Whitespace

\* C7: after Decompose no subtask description is empty or whitespace-only,
\* every subtask has an empty result, and the subtasks are the non-blank
\* candidates, stripped, in the candidates' order.
C7_SubtasksAreNonBlankCandidatesInOrder ==
    stageOut["decompose_task"].some =>
        LET subs == stageOut["decompose_task"].val.subtasks
            kept == {j \in 1..Len(Candidates) : NonBlank(Candidates[j])}
        IN  /\ \A i \in 1..Len(subs) :
                    /\ NonBlank(subs[i].description)
                    /\ subs[i].result = <<>>
            /\ Len(subs) = Cardinality(kept)
            /\ \A j \in kept :
                    LET i == Cardinality({k \in kept : k <= j})
                    IN  /\ subs[i].description # <<>>
                        /\ Head(subs[i].description) \notin Whitespace
                        /\ subs[i].description[Len(subs[i].description)] \notin Whitespace
                        /\ \E a, b \in 0..Len(Candidates[j]) :
                              /\ Candidates[j] =
                                    SubSeq(Candidates[j], 1, a) \o subs[i].description
                                        \o SubSeq(Candidates[j], Len(Candidates[j]) - b + 1,
                                                  Len(Candidates[j]))
                              /\ \A k \in 1..a : Candidates[j][k] \in Whitespace
                              /\ \A k \in (Len(Candidates[j]) - b + 1)..Len(Candidates[j]) :
                                    Candidates[j][k] \in Whitespace

\* C7 witness: a blank candidate between two non-blank ones was dropped
C7_Witness ==
    /\ stageOut["decompose_task"].some
    /\ Candidates = << <<" ", "a">>, <<" ", "\n">>, <<"b">> >>
    /\ Len(request.subtasks) = 2

\* C8: no subtask call is issued before Decompose has completed; Combine and
\* Finalize do not begin until every subtask has been started and its call
\* has resolved; Finalize begins only after Combine has completed.
C8_StageOrder ==
    workflow.class = "MultiStepAgentWorkflow" =>
        /\ CallsOf("execute_subtasks") # {} =>
                /\ stageOut["decompose_task"].some
                /\ calls[1].stage = "decompose_task" /\ calls[1].status = "ok"
        /\ CallsOf("combine_results") \cup CallsOf("generate_final_response") # {} =>
                /\ \A i \in 1..Len(tasks) : tasks[i] \in {"done", "failed"}
                /\ Cardinality(CallsOf("execute_subtasks")) = Len(request.subtasks)
                /\ \A c \in CallsOf("execute_subtasks") : calls[c].status # "inflight"
        /\ CallsOf("generate_final_response") # {} =>
                /\ stageOut["combine_results"].some
                /\ \A c \in CallsOf("combine_results") : calls[c].status = "ok"

\* C8 witness: Finalize has begun after two subtasks were executed
C8_Witness ==
    /\ workflow.class = "MultiStepAgentWorkflow"
    /\ pc = "generate_final_response"
    /\ Len(tasks) = 2

\* C9: when the backend raised on a subtask, the invocation returns exactly
\* the apology, Combine never ran, and the memory ends with the user input
\* message: no assistant message was appended for the turn.
C9_SubtaskFailureGivesApology ==
    (Done /\ workflow.class = "MultiStepAgentWorkflow"
          /\ \E i \in 1..Len(tasks) : tasks[i] = "failed") =>
        /\ outcome.kind = "returned"
        /\ outcome.text = Apology
        /\ ~stageOut["combine_results"].some
        /\ CallsOf("combine_results") = {}
        /\ workflow.memory.msgs =
                HistoryMessages(req.history) \o <<ChatMessage(HUMAN, req.user_input)>>

\* C9 witness: the first subtask returned, the second one raised
C9_Witness ==
    /\ Done /\ workflow.class = "MultiStepAgentWorkflow"
    /\ Len(tasks) >= 2 /\ tasks[1] = "done" /\ tasks[2] = "failed"
    /\ outcome.text = Apology

\* C10: in PromptOptimization, when the evaluation yields
\* needs_optimization = false no optimizer call is made and the prompt given
\* to the response stage is the original user input; when it yields true the
\* prompt given to the response stage is the optimizer call's output.
C10_ResponsePrompt ==
    workflow.class = "PromptOptimizationWorkflow" =>
        \A c \in CallsOf("generate_response") :
            /\ stageOut["evaluate_prompt"].some
            /\ IF stageOut["evaluate_prompt"].val.needs_optimization
               THEN \E o \in CallsOf("optimize_prompt") :
                        /\ o < c
                        /\ calls[o].status = "ok"
                        /\ calls[c].prompt.arg = calls[o].reply
               ELSE /\ CallsOf("optimize_prompt") = {}
                    /\ calls[c].prompt.arg = req.user_input

\* C10 witness: the evaluation said no and the response stage was called
C10_Witness ==
    /\ workflow.class = "PromptOptimizationWorkflow"
    /\ pc = "generate_response"
    /\ ~stageOut["evaluate_prompt"].val.needs_optimization

\* a reply that is the affirmative answer and nothing else
WellFormedAffirmative(reply) == Lower(Strip(reply)) = <<"y", "e", "s">>

\* C11: in PromptOptimization an evaluation reply that is not a well-formed
\* affirmative is treated as "no optimization needed": the optimize stage is
\* skipped and the response stage gets the original prompt.
C11_MalformedEvaluationSkipsOptimize ==
    (workflow.class = "PromptOptimizationWorkflow" /\ stageOut["evaluate_prompt"].some
        /\ ~WellFormedAffirmative(calls[1].reply)) =>
            /\ ~stageOut["evaluate_prompt"].val.needs_optimization
            /\ CallsOf("optimize_prompt") = {}
            /\ \A c \in CallsOf("generate_response") : calls[c].prompt.arg = req.user_input

\* C12: every session has exactly one conversation memory: the turns of a
\* session all run on the same buffer (created at session start or on first
\* use), for every workflow variant, and no buffer serves two sessions.
C12_OneMemoryPerSession ==
    \A s \in Sessions :
        /\ Cardinality(memLog[s].used) <= 1
        /\ memLog[s].created <= 1

\* the invocation is a replay of the first request of the run
Replayed == replay.on /\ turn >= 2 /\ Done /\ req.history = <<>>

\* the memory of the session holds the messages of this turn only: the turn
\* started on a new buffer, as the first run did
OwnMemoryOnly ==
    Cardinality({i \in 1..Len(Memory.msgs) : Memory.msgs[i].role = HUMAN}) = 1

\* C13 (as claimed): against a deterministic stub every replay of a request
\* (same input, empty history, same model) ends with the final response of the
\* first run, for every variant, replays within the same session included.
C13_ReplaySameText == Replayed => outcome = replay.result

\* C13 (amended): against a deterministic stub and with memory puts that do
\* not fail, a replay ends as the first run did whenever it starts from the
\* memory contents the first run started from: every replay through the
\* service (the multi-step agent builds its buffer anew; the other variants
\* raise the same TypeError), and a replay of SimpleChatbot,
\* PromptOptimization or WebSearch in a session that had no memory yet.
C13_ReplayFromEqualMemory ==
    (Replayed /\ (req.via = "service" \/ OwnMemoryOnly)) => outcome = replay.result

\* C13 witness: a replay in a new session returned the model's reply again
C13_Witness ==
    /\ Replayed /\ req.via = "direct" /\ OwnMemoryOnly
    /\ outcome.kind = "returned" /\ fault = "none"
    /\ replay.result = outcome

\* C13 witness of the service: the multi-step agent replayed two subtasks
C13_WitnessMultiStep ==
    /\ Replayed /\ IsMultiStep /\ Len(tasks) >= 2
    /\ outcome.kind = "returned" /\ fault = "none"
    /\ replay.result = outcome

EqualIgnoringCase(a, b) ==
    /\ Len(a) = Len(b)
    /\ \A i \in 1..Len(a) : LowerChar(a[i]) = LowerChar(b[i])

\* the role the claim gives a history entry
ClaimedRole(entry) ==
    IF EqualIgnoringCase(entry.role, <<"u", "s", "e", "r">>) THEN HUMAN
    ELSE IF EqualIgnoringCase(entry.role, <<"a", "s", "s", "i", "s", "t", "a", "n", "t">>)
    THEN ASSISTANT
    ELSE SYSTEM

C15_EveryInvocationReturns == (pc # "idle") ~> (pc = "idle")

\* C17: during Execute, under every interleaving of the subtask calls, each
\* request is built from its own subtask's description only, each result is
\* written onto the subtask that issued the call and onto no other, and the
\* descriptions and the order of the list are as Decompose left them.
C17_SubtasksIsolated ==
    (IsMultiStep /\ stageOut["decompose_task"].some) =>
        LET planned == stageOut["decompose_task"].val.subtasks
        IN  /\ Len(request.subtasks) = Len(planned)
            /\ \A i \in 1..Len(planned) :
                    request.subtasks[i].description = planned[i].description
            /\ \A c \in CallsOf("execute_subtasks") :
                    /\ calls[c].sub \in 1..Len(planned)
                    /\ calls[c].prompt.arg = planned[calls[c].sub].description
                    /\ calls[c].context = <<>>
            /\ \A i \in 1..Len(tasks) :
                    IF tasks[i] = "done"
                    THEN \E c \in CallsOf("execute_subtasks") :
                            /\ calls[c].sub = i
                            /\ calls[c].status = "ok"
                            /\ request.subtasks[i].result = Strip(calls[c].reply)
                    ELSE request.subtasks[i].result = <<>>

\* C17 witness: the second subtask's call returned while the first one, with
\* another description, is still in flight
C17_Witness ==
    /\ IsMultiStep /\ pc = "execute_subtasks" /\ Len(tasks) >= 2
    /\ tasks[1] = "running" /\ tasks[2] = "done"
    /\ request.subtasks[1].description # request.subtasks[2].description
    /\ request.subtasks[2].result # <<>>

\* C18: Combine builds a mapping with exactly one entry per distinct subtask
\* description, mapped to the result of the last subtask of the list with
\* that description, and Finalize returns this mapping unchanged as
\* subtask_results.
C18_CombineLastWriteWins ==
    (IsMultiStep /\ stageOut["combine_results"].some) =>
        LET executed == stageOut["execute_subtasks"].val.subtasks
            mapping == stageOut["combine_results"].val.subtask_results
        IN  /\ DOMAIN mapping = {executed[i].description : i \in 1..Len(executed)}
            /\ \A i \in 1..Len(executed) :
                    (\A j \in (i + 1)..Len(executed) :
                        executed[j].description # executed[i].description)
                    => mapping[executed[i].description] = executed[i].result
            /\ stageOut["generate_final_response"].some =>
                    stageOut["generate_final_response"].val.subtask_results = mapping

\* C18 witness: Finalize returned after two subtasks with the same
\* description had got different results
C18_Witness ==
    /\ IsMultiStep /\ stageOut["generate_final_response"].some
    /\ \E i, j \in 1..Len(request.subtasks) :
            /\ i < j
            /\ request.subtasks[i].description = request.subtasks[j].description
            /\ request.subtasks[i].result # request.subtasks[j].result

\* Decompose returned an empty subtask list
EmptyPlan ==
    /\ IsMultiStep /\ stageOut["decompose_task"].some
    /\ stageOut["decompose_task"].val.subtasks = <<>>

\* C19: an empty subtask list is not an error: Execute issues no call,
\* Combine and Finalize still run, and the output of Finalize (not the
\* apology) is returned and appended to memory as the assistant message.
C19_EmptyPlanStillAnswers ==
    EmptyPlan =>
        /\ CallsOf("execute_subtasks") = {}
        \* the except clause runs only for a backend call or a put that raised
        /\ fault \in {"none", "combine_results", "generate_final_response",
                       "put_final_response"}
        /\ fault # "none" =>
                \/ fault = "put_final_response"
                \/ \E c \in CallsOf(fault) : calls[c].status = "err"
        /\ (Done /\ fault = "none") =>
                /\ stageOut["execute_subtasks"].some
                /\ stageOut["combine_results"].some
                /\ stageOut["combine_results"].val.subtask_results = <<>>
                /\ stageOut["generate_final_response"].some
                /\ \E c \in CallsOf("generate_final_response") :
                        /\ calls[c].status = "ok"
                        /\ outcome = Returned(Strip(calls[c].reply))
                /\ Len(workflow.memory.msgs) >= 2
                /\ workflow.memory.msgs[Len(workflow.memory.msgs)] =
                        ChatMessage(ASSISTANT, outcome.text)

\* C19 witness: every candidate was blank, and the invocation returned the
\* text of Finalize
C19_Witness ==
    /\ EmptyPlan /\ Done /\ fault = "none"
    /\ Candidates # <<>>
    /\ outcome.kind = "returned" /\ outcome.text # Apology

WebSearchOrder == <<"optimize_query", "perform_web_search", "generate_final_response">>

\* C20: in every WebSearch invocation the stages run rewrite, search,
\* synthesize: the search starts only after the rewrite has returned and gets
\* the rewritten query (not the raw input), the synthesis gets the output of
\* the search, and a failure of the search is handled as a failure of a model
\* call is: the apology is returned and no assistant message is appended.
C20_WebSearchOrder ==
    workflow.class = "WebSearchWorkflow" =>
        /\ Len(calls) <= 3
        /\ \A c \in 1..Len(calls) :
                /\ calls[c].stage = WebSearchOrder[c]
                /\ c > 1 => calls[c - 1].status = "ok"
        /\ Len(calls) >= 1 => calls[1].prompt.arg = req.user_input
        /\ Len(calls) >= 2 =>
                /\ calls[2].prompt.arg = calls[1].reply
                /\ calls[2].prompt.arg = stageOut["optimize_query"].val
        /\ Len(calls) >= 3 =>
                /\ calls[3].prompt.arg = calls[2].reply
                /\ calls[3].prompt.arg = stageOut["perform_web_search"].val
        /\ (\E c \in 1..Len(calls) : calls[c].status = "err") =>
                /\ Done
                /\ outcome = Returned(Apology)
                /\ Memory.msgs[Len(Memory.msgs)] = ChatMessage(HUMAN, req.user_input)

\* C20 witness: the rewrite returned and the search raised
C20_Witness ==
    /\ workflow.class = "WebSearchWorkflow" /\ Done
    /\ Len(calls) = 2
    /\ calls[1].status = "ok" /\ calls[1].reply # req.user_input
    /\ calls[2].status = "err"
    /\ outcome.text = Apology

\* C21: when the multi-step agent's execute_request_workflow returns (the
\* final response or the apology), no subtask call of the invocation is still
\* in flight, so no Subtask.result is written after the return; the apology
\* for a failed subtask is not returned while sibling calls are outstanding.
C21_NothingInFlightAfterReturn ==
    (IsMultiStep /\ Done) =>
        /\ \A c \in 1..Len(calls) : calls[c].status # "inflight"
        /\ \A i \in 1..Len(tasks) : tasks[i] \in {"done", "failed"}

\* C22 (as claimed): after any sequence of completed turns of a session,
\* successful or failed, every user message in the session memory is
\* immediately followed by an assistant message.
C22_UserAlwaysAnswered ==
    \* the turn has ended, on a workflow that had a backend client
    (pc = "idle" /\ workflow.client) =>
        \A s \in Sessions : \A i \in 1..Len(sessionMemory[s].msgs) :
            sessionMemory[s].msgs[i].role = HUMAN =>
                /\ i < Len(sessionMemory[s].msgs)
                /\ sessionMemory[s].msgs[i + 1].role = ASSISTANT

\* C22 (amended): in the session memory every assistant message immediately
\* follows a user message, a system message is the first message only, and a
\* successful turn ends with its user message immediately followed by its
\* assistant message; a failed turn leaves its user message unanswered.
C22_AssistantFollowsUser ==
    /\ \A s \in Sessions : \A i \in 1..Len(sessionMemory[s].msgs) :
            /\ sessionMemory[s].msgs[i].role = ASSISTANT =>
                    /\ i > 1
                    /\ sessionMemory[s].msgs[i - 1].role = HUMAN
            /\ sessionMemory[s].msgs[i].role = SYSTEM => i = 1
    /\ (Done /\ req.via = "direct" /\ outcome.kind = "returned" /\ fault = "none") =>
            /\ Len(Memory.msgs) >= 2
            /\ Memory.msgs[Len(Memory.msgs) - 1] = ChatMessage(HUMAN, req.user_input)
            /\ Memory.msgs[Len(Memory.msgs)] = ChatMessage(ASSISTANT, outcome.text)

\* C22 witness: a successful turn in a session whose previous turn failed
\* after its user message was stored
C22_Witness ==
    /\ Done /\ req.via = "direct" /\ outcome.kind = "returned" /\ fault = "none"
    /\ Len(Memory.msgs) >= 3
    /\ Memory.msgs[Len(Memory.msgs) - 2].role = HUMAN
    /\ Memory.msgs[Len(Memory.msgs) - 1].role = HUMAN
    /\ Memory.msgs[Len(Memory.msgs)].role = ASSISTANT

\* C23: the final response of a MultiStepAgent invocation does not depend
\* on the history: against the same deterministic backend, an invocation with
\* any history issues the backend requests of the invocation with the same
\* input and model and an empty history, stage by stage, and returns the same
\* text; the history shows in the workflow's memory only.
C23_HistoryIndependent ==
    (replay.on /\ turn >= 2 /\ Done /\ IsMultiStep) =>
        /\ outcome = replay.result
        /\ Len(calls) = Len(replay.requests)
        /\ \A c \in 1..Len(calls) : SameRequest(calls[c], replay.requests[c])
        /\ (outcome.kind = "returned" /\ fault = "none") =>
                Len(workflow.memory.msgs) = Len(req.history) + 2

\* C23 witness: an invocation with a history returned what the invocation
\* without one had returned, after two subtasks
C23_Witness ==
    /\ replay.on /\ turn >= 2 /\ Done /\ IsMultiStep
    /\ req.history # <<>>
    /\ Len(tasks) >= 2
    /\ outcome.kind = "returned" /\ fault = "none"
    /\ outcome = replay.result

====
